---------------------------- MODULE Spec2Model ----------------------------
(***************************************************************************)
(* A model of hexx's Hex coordinate type (src/src/hex/mod.rs).             *)
(*                                                                         *)
(* Hex is a value type and every operation is a function of its            *)
(* arguments, so the state of the model is the call in progress: the       *)
(* operation called last (op), its arguments (args), what it returned      *)
(* (ret), and, for the one operation that loops (wrap_with), the loop's    *)
(* locals (res, mirrors, wrap_mirror) and the iterations counted (iters).  *)
(*                                                                         *)
(* i32 coordinates are modelled as integers in a range where no i32        *)
(* operation overflows.  u32 arithmetic whose overflow is in reach of      *)
(* small arguments (range_count) is modelled digit by digit, with its      *)
(* width.  f32 values are modelled as exact fractions plus NaN: for the    *)
(* lines of the model (all lines with |x|, |y| <= 4, and the line of the   *)
(* documentation's example) line_to yields in f32 arithmetic the same Hex  *)
(* values as in exact arithmetic.                                          *)
(***************************************************************************)
EXTENDS Integers, Sequences, FiniteSets, TLC

VARIABLES op, args, ret, pc, res, mirrors, wrap_mirror, iters

vars == <<op, args, ret, pc, res, mirrors, wrap_mirror, iters>>

---------------------------------------------------------------------------
(* Bounds of the model *)

\* |x|, |y| of the Hex arguments drawn for the calls
CoordBound == 2
\* |x|, |y| of the Hex arguments drawn for wrap_in_range
WrapBound == 6
\* largest radius drawn for wrap_in_range
MaxRadius == 2
\* largest range drawn for range (and range_count, besides its probes)
MaxRange == 2
\* largest rotation count drawn for rotate_left / rotate_right
MaxRot == 7
\* |x|, |y|, |z| of the components drawn for new_cubic
CubicBound == 2

Hexes(b) == { [x |-> i, y |-> j] : i \in -b..b, j \in -b..b }

\* the iterations of a wrap_with loop are counted up to MaxIters
MaxIters == 2 * WrapBound + 2

\* the model follows a wrap_with loop while ulength(res) <= MaxLength
MaxLength == 2 * WrapBound + 2

---------------------------------------------------------------------------
(* Integer helpers *)

Abs(i) == IF i < 0 THEN -i ELSE i

Max(i, j) == IF i >= j THEN i ELSE j

Min(i, j) == IF i <= j THEN i ELSE j

---------------------------------------------------------------------------
(* Coordinate core *)

new(x, y) == [x |-> x, y |-> y]

ORIGIN == new(0, 0)

NEIGHBORS_COORDS ==
  << new(1, -1), new(0, -1), new(-1, 0), new(-1, 1), new(0, 1), new(1, 0) >>

DIAGONAL_COORDS ==
  << new(2, -1), new(1, -2), new(-1, -1), new(-2, 1), new(-1, 2), new(1, 1) >>

\* values an operation can return
Panic == [kind |-> "panic"]

RetHex(h) == [kind |-> "hex", val |-> h]

RetSeq(s) == [kind |-> "seq", val |-> s]

RetInt(i) == [kind |-> "int", val |-> i]

Some(d) == [kind |-> "some", val |-> d]

None == [kind |-> "none"]

z(self) == -self.x - self.y

new_cubic_swapped(x, y, zz) ==
  IF x + y + zz = 0 THEN RetHex([x |-> x, y |-> zz]) ELSE Panic

\* assert!(x + y + z == 0); Self { x, y }
new_cubic(x, y, zz) ==
  IF x + y + zz = 0 THEN RetHex([x |-> x, y |-> y]) ELSE Panic

const_neg(self) == [x |-> -self.x, y |-> -self.y]

const_add(self, other) == [x |-> self.x + other.x, y |-> self.y + other.y]

const_sub(self, rhs) == [x |-> self.x - rhs.x, y |-> self.y - rhs.y]

to_array3(self) == << self.x, self.y, z(self) >>

---------------------------------------------------------------------------
(* Metric layer *)

length_axial(self) ==
  LET x == Abs(self.x)
      y == Abs(self.y)
  IN  IF x >= y THEN x ELSE y

length(self) ==
  LET x == Abs(self.x)
      y == Abs(self.y)
      zz == Abs(z(self))
  IN  IF x >= y /\ x >= zz THEN x
      ELSE IF y >= x /\ y >= zz THEN y
      ELSE zz

ulength(self) ==
  LET x == Abs(self.x)
      y == Abs(self.y)
      zz == Abs(z(self))
  IN  IF x >= y /\ x >= zz THEN x
      ELSE IF y >= x /\ y >= zz THEN y
      ELSE zz

distance_to(self, rhs) == length(const_sub(self, rhs))

---------------------------------------------------------------------------
(* Direction: a closed enumeration of 6 variants, used by its ordinal       *)
(* (`direction as usize`), by ordered iteration and by negation.            *)

TopRight == 0

Top == 1

TopLeft == 2

BottomLeft == 3

Bottom == 4

BottomRight == 5

\* Direction::iter(): the variants in ordinal order
Direction_iter == << TopRight, Top, TopLeft, BottomLeft, Bottom, BottomRight >>

Directions == { Direction_iter[i] : i \in 1..Len(Direction_iter) }

\* -dir: the opposite direction
Direction_neg(dir) == (dir + 3) % 6

neighbor_coord(direction) == NEIGHBORS_COORDS[direction + 1]

neighbor(self, direction) == const_add(self, neighbor_coord(direction))

\* Iterator::find: the first direction of dirs whose neighbor is other
RECURSIVE find_neighbor(_, _, _)
find_neighbor(dirs, self, other) ==
  IF dirs = << >> THEN None
  ELSE IF neighbor(self, Head(dirs)) = other THEN Some(Head(dirs))
  ELSE find_neighbor(Tail(dirs), self, other)

neighbor_direction_short(self, other) ==
  find_neighbor(SubSeq(Direction_iter, 1, Len(Direction_iter) - 1), self, other)

neighbor_direction(self, other) == find_neighbor(Direction_iter, self, other)

direction_to_nonpositive(self, rhs) ==
  LET c  == to_array3(const_sub(rhs, self))
      x  == c[2] - c[1]
      y  == c[3] - c[2]
      zz == c[1] - c[3]
      xa == Abs(x)
      ya == Abs(y)
      za == Abs(zz)
      m  == Max(Max(xa, ya), za)
      vd == CASE m = xa -> << x, BottomLeft >>
              [] m # xa /\ m = ya -> << y, Top >>
              [] m # xa /\ m # ya /\ m = za -> << zz, BottomRight >>
  IN  IF vd[1] <= 0 THEN Direction_neg(vd[2]) ELSE vd[2]

\* the match arms are tried in order; the last arm is unreachable!()
direction_to(self, rhs) ==
  LET c  == to_array3(const_sub(rhs, self))
      x  == c[2] - c[1]
      y  == c[3] - c[2]
      zz == c[1] - c[3]
      xa == Abs(x)
      ya == Abs(y)
      za == Abs(zz)
      m  == Max(Max(xa, ya), za)
      vd == CASE m = xa -> << x, BottomLeft >>
              [] m # xa /\ m = ya -> << y, Top >>
              [] m # xa /\ m # ya /\ m = za -> << zz, BottomRight >>
  IN  IF vd[1] < 0 THEN Direction_neg(vd[2]) ELSE vd[2]

---------------------------------------------------------------------------
(* Transform layer *)

left(self) == new(-z(self), -self.x)

right(self) == new(-self.y, -z(self))

rotate_left_copied(self, m) ==
  CASE m % 6 = 1 -> left(self)
    [] m % 6 = 2 -> left(left(self))
    [] m % 6 = 3 -> const_neg(self)
    [] m % 6 = 4 -> left(left(self))
    [] m % 6 = 5 -> right(self)
    [] OTHER -> self

rotate_left(self, m) ==
  CASE m % 6 = 1 -> left(self)
    [] m % 6 = 2 -> left(left(self))
    [] m % 6 = 3 -> const_neg(self)
    [] m % 6 = 4 -> right(right(self))
    [] m % 6 = 5 -> right(self)
    [] OTHER -> self

rotate_right(self, m) ==
  CASE m % 6 = 1 -> right(self)
    [] m % 6 = 2 -> right(right(self))
    [] m % 6 = 3 -> const_neg(self)
    [] m % 6 = 4 -> left(left(self))
    [] m % 6 = 5 -> left(self)
    [] OTHER -> self

---------------------------------------------------------------------------
(* f32: NaN, or the fraction num / den (den > 0).  An infinity, x / 0.0    *)
(* with x # 0, is not modelled: line_to divides by zero only at step 0.    *)

NaN == [nan |-> TRUE, num |-> 0, den |-> 1]

F32(n, d) == [nan |-> FALSE, num |-> n, den |-> d]

\* `i as f32`
as_f32(i) == F32(i, 1)

f32_add(a, b) ==
  IF a.nan \/ b.nan THEN NaN
  ELSE F32(a.num * b.den + b.num * a.den, a.den * b.den)

f32_sub(a, b) ==
  IF a.nan \/ b.nan THEN NaN
  ELSE F32(a.num * b.den - b.num * a.den, a.den * b.den)

f32_mul(a, b) ==
  IF a.nan \/ b.nan THEN NaN
  ELSE F32(a.num * b.num, a.den * b.den)

\* 0.0 / 0.0 is NaN, and no panic
f32_div(a, b) ==
  CASE a.nan \/ b.nan -> NaN
    [] ~a.nan /\ ~b.nan /\ b.num = 0 /\ a.num = 0 -> NaN
    [] ~a.nan /\ ~b.nan /\ b.num > 0 -> F32(a.num * b.den, a.den * b.num)
    [] ~a.nan /\ ~b.nan /\ b.num < 0 -> F32(-(a.num * b.den), a.den * (-b.num))

\* f32::round: to the nearest integer, half-way cases away from 0.0
f32_round(a) ==
  IF a.nan THEN NaN
  ELSE IF a.num >= 0 THEN F32((2 * a.num + a.den) \div (2 * a.den), 1)
  ELSE F32(-((2 * (-a.num) + a.den) \div (2 * a.den)), 1)

\* a.mul_add(b, c) = a * b + c
f32_mul_add(a, b, c) == f32_add(f32_mul(a, b), c)

\* comparisons with a NaN are false
f32_ge(a, b) == ~a.nan /\ ~b.nan /\ a.num * b.den >= b.num * a.den

f32_lt(a, b) == ~a.nan /\ ~b.nan /\ a.num * b.den < b.num * a.den

\* `v as i32`: truncates towards zero, and NaN becomes 0
f32_as_i32(a) ==
  IF a.nan THEN 0
  ELSE IF a.num >= 0 THEN a.num \div a.den
  ELSE -((-a.num) \div a.den)

as_vec2(self) == [x |-> as_f32(self.x), y |-> as_f32(self.y)]

\* glam's Vec2::lerp: self + (rhs - self) * s
vec2_lerp(a, b, s) ==
  [x |-> f32_add(a.x, f32_mul(f32_sub(b.x, a.x), s)),
   y |-> f32_add(a.y, f32_mul(f32_sub(b.y, a.y), s))]

round(v) ==
  LET x0  == v[1]
      y0  == v[2]
      x_r == f32_round(x0)
      y_r == f32_round(y0)
      x   == f32_sub(x0, f32_round(x0))
      y   == f32_sub(y0, f32_round(y0))
      x_c == IF f32_ge(f32_mul(x, x), f32_mul(y, y))
             THEN f32_add(x_r, f32_round(f32_mul_add(F32(1, 2), y, x)))
             ELSE x_r
      y_c == IF f32_lt(f32_mul(x, x), f32_mul(y, y))
             THEN f32_add(y_r, f32_round(f32_mul_add(F32(1, 2), x, y)))
             ELSE y_r
  IN  new(f32_as_i32(x_c), f32_as_i32(y_c))

\* From<Vec2> for Hex, the `.into()` of line_to: the rounding rule
Hex_from_vec2(v) == round(<< v.x, v.y >>)

---------------------------------------------------------------------------
(* Area / path layer *)

line_to_exclusive(self, other) ==
  LET distance == distance_to(self, other)
      a == as_vec2(self)
      b == as_vec2(other)
  IN  [ i \in 1..distance |->
          Hex_from_vec2(vec2_lerp(a, b, f32_div(as_f32(i - 1), as_f32(distance)))) ]

\* (0..=distance).map(|step| a.lerp(b, step as f32 / distance as f32).into())
line_to(self, other) ==
  LET distance == distance_to(self, other)
      a == as_vec2(self)
      b == as_vec2(other)
  IN  [ i \in 1..(distance + 1) |->
          Hex_from_vec2(vec2_lerp(a, b, f32_div(as_f32(i - 1), as_f32(distance)))) ]

\* the row of range at offset x: y in max(-range, -x - range)..=min(range, range - x)
range_row(self, rng, x) ==
  LET lo == Max(-rng, -x - rng)
      hi == Min(rng, rng - x)
  IN  [ j \in 1..(hi - lo + 1) |-> const_add(self, new(x, lo + j - 1)) ]

RECURSIVE range_rows(_, _, _)
\* flat_map: the rows at offsets x..=range, one after the other
range_rows(self, rng, x) ==
  IF x > rng THEN << >>
  ELSE range_row(self, rng, x) \o range_rows(self, rng, x + 1)

range_square(self, rng) ==
  LET n == 2 * rng + 1
  IN  [ k \in 1..(n * n) |->
          const_add(self, new(((k - 1) \div n) - rng, ((k - 1) % n) - rng)) ]

range(self, rng) == range_rows(self, rng, -rng)

---------------------------------------------------------------------------
(* Naturals beyond TLC's 32-bit integers: little-endian digits, most       *)
(* significant digit not 0, so that equal numbers are equal sequences.     *)

DigitBase == 2 ^ 8

\* a u32 holds 32 bits
U32Digits == 32 \div 8

RECURSIVE BigNorm(_)
BigNorm(s) ==
  IF s = << >> THEN s
  ELSE IF s[Len(s)] = 0 THEN BigNorm(SubSeq(s, 1, Len(s) - 1))
  ELSE s

RECURSIVE ToBig(_)
ToBig(n) == IF n = 0 THEN << >> ELSE << n % DigitBase >> \o ToBig(n \div DigitBase)

RECURSIVE BigAddC(_, _, _)
BigAddC(a, b, c) ==
  IF a = << >> /\ b = << >> THEN ToBig(c)
  ELSE LET da == IF a = << >> THEN 0 ELSE Head(a)
           db == IF b = << >> THEN 0 ELSE Head(b)
           ta == IF a = << >> THEN a ELSE Tail(a)
           tb == IF b = << >> THEN b ELSE Tail(b)
           t  == da + db + c
       IN  << t % DigitBase >> \o BigAddC(ta, tb, t \div DigitBase)

BigAdd(a, b) == BigNorm(BigAddC(a, b, 0))

RECURSIVE BigMulDigit(_, _, _)
BigMulDigit(a, d, c) ==
  IF a = << >> THEN ToBig(c)
  ELSE LET t == Head(a) * d + c
       IN  << t % DigitBase >> \o BigMulDigit(Tail(a), d, t \div DigitBase)

RECURSIVE BigMul(_, _)
BigMul(a, b) ==
  IF b = << >> THEN << >>
  ELSE BigAdd(BigNorm(BigMulDigit(a, Head(b), 0)),
              BigNorm(<< 0 >> \o BigMul(a, Tail(b))))

\* the low 32 bits of v, and whether v has more
u32_wrap(v) == BigNorm(SubSeq(v, 1, Min(Len(v), U32Digits)))

u32_overflows(v) == Len(v) > U32Digits

range_count_no_one(rng, overflow_checks) ==
  LET r  == ToBig(rng)
      t1 == BigMul(ToBig(3), r)
      s1 == BigAdd(r, ToBig(1))
      t2 == BigMul(u32_wrap(t1), u32_wrap(s1))
  IN  IF overflow_checks
         /\ (u32_overflows(t1) \/ u32_overflows(s1) \/ u32_overflows(t2))
      THEN Panic
      ELSE RetInt(u32_wrap(t2))

\* (3 * range * (range + 1) + 1) as usize, the arithmetic in u32: an overflow
\* panics where overflow checks are compiled in, and wraps where they are not
range_count(rng, overflow_checks) ==
  LET r  == ToBig(rng)
      t1 == BigMul(ToBig(3), r)
      s1 == BigAdd(r, ToBig(1))
      t2 == BigMul(u32_wrap(t1), u32_wrap(s1))
      t3 == BigAdd(u32_wrap(t2), ToBig(1))
  IN  IF overflow_checks
         /\ (u32_overflows(t1) \/ u32_overflows(s1) \/ u32_overflows(t2)
             \/ u32_overflows(t3))
      THEN Panic
      ELSE RetInt(u32_wrap(t3))

\* how many values the row of range at offset x yields
range_row_len(rng, x) ==
  LET lo == Max(-rng, -x - rng)
      hi == Min(rng, rng - x)
  IN  IF hi >= lo THEN hi - lo + 1 ELSE 0

RECURSIVE range_len_rows(_, _, _)
\* how many values the rows at offsets x1..=x2 yield
range_len_rows(rng, x1, x2) ==
  IF x1 > x2 THEN << >>
  ELSE IF x1 = x2 THEN ToBig(range_row_len(rng, x1))
  ELSE LET mid == (x1 + x2) \div 2
       IN  BigAdd(range_len_rows(rng, x1, mid), range_len_rows(rng, mid + 1, x2))

\* how many values range(h, range) yields
range_len(rng) == range_len_rows(rng, -rng, rng)

---------------------------------------------------------------------------
(* Wraparound *)

wraparound_mirrors_no_one(radius) ==
  LET mirror == new(2 * radius, -radius)
      center == mirror
      l == left(mirror)
      r == right(mirror)
  IN  << l, center, r, const_neg(l), const_neg(center), const_neg(r) >>

wraparound_mirrors(radius) ==
  LET mirror == new(2 * radius + 1, -radius)
      center == mirror
      l == left(mirror)
      r == right(mirror)
  IN  << l, center, r, const_neg(l), const_neg(center), const_neg(r) >>

farthest_mirrors(h, ms) ==
  { i \in 1..Len(ms) :
      \A j \in 1..Len(ms) : distance_to(h, ms[i]) >= distance_to(h, ms[j]) }

\* the mirrors that sorted_unstable_by_key(|m| res.distance_to(*m)) may put
\* first: an unstable sort leaves the order of equal keys open
nearest_mirrors(h, ms) ==
  { i \in 1..Len(ms) :
      \A j \in 1..Len(ms) : distance_to(h, ms[i]) <= distance_to(h, ms[j]) }

---------------------------------------------------------------------------
(* The calls *)

NoRet == [kind |-> "unit"]

Init ==
  /\ op = "none"
  /\ args = << >>
  /\ ret = NoRet
  /\ pc = "idle"
  /\ res = ORIGIN
  /\ mirrors = << >>
  /\ wrap_mirror = ORIGIN
  /\ iters = 0

\* a call of o with arguments a that runs to its end in one step, returning r;
\* a behaviour is one call, from its entry (pc = "idle") to its return
\* (pc = "done")
Call(o, a, r) ==
  /\ pc = "idle"
  /\ op' = o
  /\ args' = a
  /\ ret' = r
  /\ pc' = "done"
  /\ res' = ORIGIN
  /\ mirrors' = << >>
  /\ wrap_mirror' = ORIGIN
  /\ iters' = 0

CallNewCubic(x, y, zz) ==
  Call("new_cubic", [x |-> x, y |-> y, z |-> zz], new_cubic(x, y, zz))

CallLength(h) == Call("length", [h |-> h], RetInt(length(h)))

CallNeighborDirection(h, other) ==
  Call("neighbor_direction", [h |-> h, other |-> other], neighbor_direction(h, other))

CallDirectionTo(a, b) ==
  Call("direction_to", [a |-> a, b |-> b], RetInt(direction_to(a, b)))

CallRotateLeft(h, m) ==
  Call("rotate_left", [h |-> h, m |-> m], RetHex(rotate_left(h, m)))

CallRotateRight(h, m) ==
  Call("rotate_right", [h |-> h, m |-> m], RetHex(rotate_right(h, m)))

CallLineTo(a, b) == Call("line_to", [a |-> a, b |-> b], RetSeq(line_to(a, b)))

CallRange(h, rng) == Call("range", [h |-> h, range |-> rng], RetSeq(range(h, rng)))

CallRangeCount(rng, overflow_checks) ==
  Call("range_count", [range |-> rng, overflow_checks |-> overflow_checks],
       range_count(rng, overflow_checks))

\* wrap_in_range(h, radius) = h.wrap_with(radius, &wraparound_mirrors(radius)),
\* up to the loop: the early return, or the entry into the loop
CallWrapInRange(h, radius) ==
  /\ pc = "idle"
  /\ op' = "wrap_in_range"
  /\ args' = [h |-> h, radius |-> radius]
  /\ mirrors' = wraparound_mirrors(radius)
  /\ wrap_mirror' = ORIGIN
  /\ res' = h
  /\ iters' = 0
  /\ IF ulength(h) <= radius
     THEN ret' = RetHex(h) /\ pc' = "done"
     ELSE ret' = NoRet /\ pc' = "wrap_loop"

\* the arrays of 6 mirrors a caller of wrap_with supplies for radius: the
\* valid one, six copies of the origin, and the mirrors of another radius
MirrorArrays(radius) ==
  { wraparound_mirrors(radius),
    << ORIGIN, ORIGIN, ORIGIN, ORIGIN, ORIGIN, ORIGIN >>,
    wraparound_mirrors(radius + 1) }

\* wrap_with(h, radius, mirrors) up to the loop: the early return, or the
\* entry into the loop
CallWrapWith(h, radius, ms) ==
  /\ pc = "idle"
  /\ op' = "wrap_with"
  /\ args' = [h |-> h, radius |-> radius, mirrors |-> ms]
  /\ mirrors' = ms
  /\ wrap_mirror' = ORIGIN
  /\ res' = h
  /\ iters' = 0
  /\ IF ulength(h) <= radius
     THEN ret' = RetHex(h) /\ pc' = "done"
     ELSE ret' = NoRet /\ pc' = "wrap_loop"

\* `while res.ulength() > radius`, the test passed, and `let mirror = ...`:
\* the unwrap() of the first of the 6 sorted mirrors cannot fail
WrapSelect ==
  /\ pc = "wrap_loop"
  /\ ulength(res) > args.radius
  /\ ulength(res) <= MaxLength
  /\ \E i \in nearest_mirrors(res, mirrors) : wrap_mirror' = mirrors[i]
  /\ pc' = "wrap_body"
  /\ UNCHANGED << op, args, ret, res, mirrors, iters >>

\* `res -= mirror`, and back to the test of the loop, which counts no
\* iterations and has no way to panic
WrapStep ==
  /\ pc = "wrap_body"
  /\ res' = const_sub(res, wrap_mirror)
  /\ iters' = IF iters < MaxIters THEN iters + 1 ELSE iters
  /\ wrap_mirror' = ORIGIN
  /\ pc' = "wrap_loop"
  /\ UNCHANGED << op, args, ret, mirrors >>

\* the loop's exit: wrap_with returns res
WrapReturn ==
  /\ pc = "wrap_loop"
  /\ ulength(res) <= args.radius
  /\ ret' = RetHex(res)
  /\ pc' = "done"
  /\ UNCHANGED << op, args, res, mirrors, wrap_mirror, iters >>

\* the ranges range_count is called with besides 0..MaxRange: the one of the
\* documentation's example, and the two at the edge of the u32 arithmetic
RangeCountProbes == { 15, 37836, 37837 }

\* the line of line_to's documentation, beyond the coordinates drawn otherwise
LineToExamples == { << new(0, 0), new(5, 0) >> }

Next ==
  \/ \E x, y, zz \in -CubicBound..CubicBound : CallNewCubic(x, y, zz)
  \/ \E h \in Hexes(CoordBound) : CallLength(h)
  \/ \E h, other \in Hexes(CoordBound) : CallNeighborDirection(h, other)
  \/ \E a, b \in Hexes(CoordBound) : CallDirectionTo(a, b)
  \/ \E h \in Hexes(CoordBound), m \in 0..MaxRot : CallRotateLeft(h, m)
  \/ \E h \in Hexes(CoordBound), m \in 0..MaxRot : CallRotateRight(h, m)
  \/ \E p \in (Hexes(CoordBound) \X Hexes(CoordBound)) \cup LineToExamples :
       CallLineTo(p[1], p[2])
  \/ \E h \in Hexes(CoordBound), rng \in 0..MaxRange : CallRange(h, rng)
  \/ \E rng \in (0..MaxRange) \cup RangeCountProbes, c \in BOOLEAN :
       CallRangeCount(rng, c)
  \/ \E h \in Hexes(WrapBound), radius \in 0..MaxRadius : CallWrapInRange(h, radius)
  \/ \E h \in Hexes(CoordBound), radius \in 0..MaxRadius :
       \E ms \in MirrorArrays(radius) : CallWrapWith(h, radius, ms)
  \/ WrapSelect
  \/ WrapStep
  \/ WrapReturn

Spec == Init /\ [][Next]_vars

\* a call that has started runs on: the loop of wrap_with is not suspended
FairSpec ==
  Spec /\ WF_vars(WrapSelect) /\ WF_vars(WrapStep) /\ WF_vars(WrapReturn)

---------------------------------------------------------------------------
(* The claims *)

\* C1: for every Hex h and radius >= 0, wrap_in_range(h, radius) leaves its
\* loop after a bounded number of iterations (at most ulength(h) of them) and
\* returns a Hex whose ulength() is <= radius.
C1_WrapInRangeTerminates ==
  /\ [](op = "wrap_in_range" => iters <= ulength(args.h))
  /\ [](op = "wrap_in_range" /\ pc = "done"
          => ret.kind = "hex" /\ ulength(ret.val) <= args.radius)
  /\ ((op = "wrap_in_range" /\ pc = "wrap_loop") ~> (pc = "done"))

C1_Witness ==
  /\ op = "wrap_in_range"
  /\ pc = "done"
  /\ iters >= 2
  /\ args.radius >= 1
  /\ ulength(ret.val) <= args.radius

\* C2: for every r, range_count(r), computed in 32-bit unsigned arithmetic,
\* equals the number of Hex values yielded by range(ORIGIN, r).
C2_RangeCountIsRangeLen ==
  op = "range_count" =>
    /\ ret = RetInt(range_len(args.range))
    /\ args.range <= MaxRange => ret = RetInt(ToBig(Len(range(ORIGIN, args.range))))

\* C3: for every Hex a, line_to(a, a) yields exactly the one-element sequence
\* [a], the single value being a and not the origin or any other Hex.
C3_LineToSelf ==
  op = "line_to" /\ args.a = args.b => ret = RetSeq(<< args.a >>)

\* the point between a and b at step / distance, in exact arithmetic
C4_Interpolated(a, b, step, distance) ==
  << F32(a.x * distance + (b.x - a.x) * step, distance),
     F32(a.y * distance + (b.y - a.y) * step, distance) >>

\* C4: for all Hex a # b, line_to(a, b) yields exactly distance_to(a, b) + 1
\* values, the first a and the last b, each the rounding (by round) of the
\* point interpolated between a and b at step / distance; line_to((0,0), (5,0))
\* yields (0,0), (1,0), (2,0), (3,0), (4,0), (5,0).
C4_LineTo ==
  /\ op = "line_to" /\ args.a # args.b =>
       LET d == distance_to(args.a, args.b)
           s == ret.val
       IN  /\ ret.kind = "seq"
           /\ Len(s) = d + 1
           /\ s[1] = args.a
           /\ s[Len(s)] = args.b
           /\ \A i \in 1..Len(s) :
                s[i] = round(C4_Interpolated(args.a, args.b, i - 1, d))
  /\ op = "line_to" /\ args.a = new(0, 0) /\ args.b = new(5, 0) =>
       ret.val = << new(0, 0), new(1, 0), new(2, 0), new(3, 0), new(4, 0), new(5, 0) >>

C4_Witness ==
  /\ op = "line_to"
  /\ args.a = new(-1, 2)
  /\ args.b = new(2, -2)
  /\ Len(ret.val) = 5
  /\ ret.val[1] = args.a
  /\ ret.val[5] = args.b

RECURSIVE C5_LeftTimes(_, _)
\* n successive applications of left()
C5_LeftTimes(h, n) == IF n = 0 THEN h ELSE left(C5_LeftTimes(h, n - 1))

\* C5: for every Hex h and unsigned m, rotate_left(h, 6) = h,
\* rotate_right(h, 6) = h, and rotate_left(h, m) =
\* rotate_right(h, (6 - m mod 6) mod 6), which is m mod 6 successive
\* applications of left().
C5_Rotation ==
  /\ op = "rotate_left" =>
       /\ ret.val = rotate_right(args.h, (6 - (args.m % 6)) % 6)
       /\ ret.val = C5_LeftTimes(args.h, args.m % 6)
       /\ args.m = 6 => ret.val = args.h
  /\ op = "rotate_right" =>
       /\ args.m = 6 => ret.val = args.h

C5_Witness ==
  /\ op = "rotate_left"
  /\ args.m = 4
  /\ args.h = new(2, -1)
  /\ ret.val = rotate_right(args.h, 2)
  /\ ret.val # args.h

\* C6: neighbor_direction is the inverse of neighbor: for every Hex h and
\* Direction d, neighbor_direction(h, neighbor(h, d)) = Some(d), and for every
\* other that is not one of the 6 neighbors of h (h itself included)
\* neighbor_direction(h, other) is None.
C6_NeighborDirection ==
  op = "neighbor_direction" =>
    /\ \A d \in Directions : args.other = neighbor(args.h, d) => ret = Some(d)
    /\ (\A d \in Directions : args.other # neighbor(args.h, d)) => ret = None
    /\ distance_to(args.h, args.other) # 1 => ret = None

C6_Witness ==
  /\ op = "neighbor_direction"
  /\ args.h = new(1, -1)
  /\ args.other = neighbor(args.h, BottomRight)
  /\ ret = Some(BottomRight)

\* C7: new_cubic(x, y, z) succeeds exactly when x + y + z = 0, and then the
\* Hex returned has the fields x and y, and z() = z; for every other triple
\* construction panics and no Hex is produced.
C7_NewCubic ==
  op = "new_cubic" =>
    /\ (args.x + args.y + args.z = 0) <=> (ret.kind = "hex")
    /\ (args.x + args.y + args.z # 0) => ret = Panic
    /\ ret.kind = "hex" =>
         /\ ret.val.x = args.x
         /\ ret.val.y = args.y
         /\ z(ret.val) = args.z

C7_Witness ==
  /\ op = "new_cubic"
  /\ args = [x |-> 1, y |-> 1, z |-> -2]
  /\ ret = RetHex(new(1, 1))

C8_InTable(h, table) == \E i \in 1..Len(table) : table[i] = h

\* C8, as stated: every entry of NEIGHBORS_COORDS and of DIAGONAL_COORDS has
\* length() exactly 1.
C8_TablesUnitLength ==
  op = "length"
    /\ (C8_InTable(args.h, NEIGHBORS_COORDS) \/ C8_InTable(args.h, DIAGONAL_COORDS))
    => ret.val = 1

\* C8, amended: every entry of NEIGHBORS_COORDS has length() exactly 1, and
\* every entry of DIAGONAL_COORDS has length() exactly 2.
C8_TableLengths ==
  /\ Len(NEIGHBORS_COORDS) = 6
  /\ Len(DIAGONAL_COORDS) = 6
  /\ op = "length" /\ C8_InTable(args.h, NEIGHBORS_COORDS) => ret.val = 1
  /\ op = "length" /\ C8_InTable(args.h, DIAGONAL_COORDS) => ret.val = 2

C8_Witness ==
  /\ op = "length"
  /\ args.h = DIAGONAL_COORDS[6]
  /\ ret.val = 2

\* C9: for every Hex h and radius r, range(h, r) yields exactly the Hex p with
\* distance_to(h, p) <= r: each of them, nothing else, nothing twice, in
\* ascending order of the x offset and, within one x offset, of the y offset.
C9_Range ==
  op = "range" =>
    LET s == ret.val
        within == { p \in Hexes(CoordBound + MaxRange + 1) :
                      distance_to(args.h, p) <= args.range }
    IN  /\ { s[i] : i \in 1..Len(s) } = within
        /\ Len(s) = Cardinality(within)
        /\ \A i, j \in 1..Len(s) :
             i < j => \/ s[i].x < s[j].x
                      \/ s[i].x = s[j].x /\ s[i].y < s[j].y

C9_Witness ==
  /\ op = "range"
  /\ args.h = new(1, -2)
  /\ args.range = 2
  /\ Len(ret.val) = 19
  /\ ret.val[1] = new(-1, -2)
  /\ ret.val[19] = new(3, -2)

\* the wedge of b seen from a, by the reference classification
C10_Wedge(a, b) ==
  LET x == b.x - a.x
      y == b.y - a.y
      zz == -x - y
      u == y - x
      v == zz - y
      w == x - zz
      m == Max(Abs(u), Max(Abs(v), Abs(w)))
      base == IF Abs(u) = m THEN BottomLeft
              ELSE IF Abs(v) = m THEN Top
              ELSE BottomRight
      comp == IF Abs(u) = m THEN u
              ELSE IF Abs(v) = m THEN v
              ELSE w
  IN  IF comp >= 0 THEN base ELSE (base + 3) % 6

\* C10: for all Hex a, b, direction_to(a, b) is the reference wedge
\* classification: of (u, v, w) = (y - x, z - y, x - z), on the cubic
\* components of b - a, the first of largest absolute value chooses
\* BottomLeft, Top or BottomRight, negated when that component is < 0; ties go
\* to the earlier axis and direction_to(a, a) is BottomLeft.
C10_DirectionTo ==
  op = "direction_to" =>
    /\ ret.val = C10_Wedge(args.a, args.b)
    /\ args.a = args.b => ret.val = BottomLeft

C10_Witness ==
  /\ op = "direction_to"
  /\ const_sub(args.b, args.a) = new(1, -2)
  /\ ret.val = TopRight

\* C11: in wrap_with called with the mirrors of wraparound_mirrors(radius),
\* every iteration of the loop strictly reduces ulength of the running value,
\* whichever of the nearest mirrors is subtracted.
C11_IterationReducesLength ==
  [][ pc = "wrap_body" /\ pc' = "wrap_loop"
        /\ mirrors = wraparound_mirrors(args.radius)
      => /\ ulength(res) > args.radius
         /\ \E i \in nearest_mirrors(res, mirrors) : wrap_mirror = mirrors[i]
         /\ res' = const_sub(res, wrap_mirror)
         /\ ulength(res') < ulength(res) ]_vars

C11_Witness ==
  /\ pc = "wrap_loop"
  /\ iters = 1
  /\ mirrors = wraparound_mirrors(args.radius)
  /\ args.radius >= 1
  /\ Cardinality(nearest_mirrors(args.h, mirrors)) >= 2
  /\ res \in { const_sub(args.h, mirrors[i]) : i \in nearest_mirrors(args.h, mirrors) }
  /\ ulength(res) < ulength(args.h)

\* C12: wrap_with(h, radius, mirrors) never loops forever, for every Hex h,
\* radius >= 0 and array of 6 mirrors: a call that enters the loop leaves it,
\* by a return or by a panic.
C12_WrapWithEnds ==
  (op = "wrap_with" /\ pc = "wrap_loop") ~> (pc = "done")

=============================================================================
